---- MODULE Spec2Model ----
(***************************************************************************)
(* A model of typedload's Loader (src/typedload/dataloader.py): the        *)
(* handler dispatch of Loader.load, the routines it dispatches to, the     *)
(* handler cache, the forward-reference table and the trace that a         *)
(* failure accumulates while it unwinds.                                   *)
(*                                                                         *)
(* One action, Load, is one top-level call of Loader.load on one Loader    *)
(* instance.  The call is computed by the recursive operator load, which   *)
(* threads the Loader (its configuration, _indexcache and frefs) through   *)
(* every nested call exactly as the Python code mutates it in place.       *)
(***************************************************************************)
EXTENDS Integers, Sequences, FiniteSets, TLC

\* Top-level load calls made on one Loader instance.
MaxCalls == 2
\* Integers that the string parser recognises lie in -MaxInt..MaxInt.
MaxInt == 13
\* The deepest nesting of load calls the interpreter allows.
RecursionLimit == 12

(***************************************************************************)
(* Dynamic values.  The tag k is the name of the value's runtime type.     *)
(***************************************************************************)
PyNone == [k |-> "NoneType"]
PyInt(n) == [k |-> "int", i |-> n]
PyStr(s) == [k |-> "str", s |-> s]
PyBool(b) == [k |-> "bool", b |-> b]
\* A float is held in halves (h = 5 is 2.5); inf is the IEEE infinity.
PyFloat(h) == [k |-> "float", h |-> h, inf |-> FALSE]
FloatInf == [k |-> "float", h |-> 0, inf |-> TRUE]
PyList(xs) == [k |-> "list", items |-> xs]
\* A mapping keeps its insertion order: keys[i] maps to vals[i].
PyDict(ks, vs) == [k |-> "dict", keys |-> ks, vals |-> vs]
\* argparse.Namespace: no keys()/items(), but _get_kwargs().
Namespace(ks, vs) == [k |-> "Namespace", keys |-> ks, vals |-> vs]
\* Results of the routines.
PyTuple(xs) == [k |-> "tuple", items |-> xs]
PySet(xs) == [k |-> "set", items |-> xs]
PyFrozenSet(xs) == [k |-> "frozenset", items |-> xs]
\* An instance of a record class; for a TypedDict, a plain dict.
Obj(cls, ks, vs) == [k |-> "obj", cls |-> cls, keys |-> ks, vals |-> vs]
EnumMember(cls, name) == [k |-> "enum", cls |-> cls, name |-> name]
PathObj(s) == [k |-> "Path", s |-> s]
DateObj(xs) == [k |-> "date", items |-> xs]

\* type(value)
TypeOf(v) == IF v.k = "obj" \/ v.k = "enum" THEN v.cls ELSE v.k

IsMapping(v) == v.k = "dict"
IsIterable(v) == v.k \in {"list", "dict", "str", "tuple", "set", "frozenset"}

Range(s) == {s[i] : i \in DOMAIN s}

\* Position of key in a sequence of keys, 0 when absent.
KeyPos(ks, key) == IF \E i \in DOMAIN ks : ks[i] = key
                   THEN CHOOSE i \in DOMAIN ks : ks[i] = key
                   ELSE 0

(***************************************************************************)
(* Python's constructors of the basic scalars, as far as the values of     *)
(* the model exercise them.  Each returns [ok, val] or [ok, err].          *)
(***************************************************************************)
Digit == <<"0", "1", "2", "3", "4", "5", "6", "7", "8", "9">>

RECURSIVE IntToStr(_)
IntToStr(n) == IF n < 0 THEN "-" \o IntToStr(-n)
               ELSE IF n < 10 THEN Digit[n + 1]
               ELSE IntToStr(n \div 10) \o Digit[(n % 10) + 1]

FloatToStr(f) == IF f.inf THEN "inf"
                 ELSE IF f.h < 0
                      THEN "-" \o IntToStr((-f.h) \div 2) \o (IF (-f.h) % 2 = 0 THEN ".0" ELSE ".5")
                      ELSE IntToStr(f.h \div 2) \o (IF f.h % 2 = 0 THEN ".0" ELSE ".5")

IsIntStr(s) == \E n \in -MaxInt..MaxInt : IntToStr(n) = s
ParseInt(s) == CHOOSE n \in -MaxInt..MaxInt : IntToStr(n) = s
IsFloatStr(s) == \E h \in -(2 * MaxInt)..(2 * MaxInt) : FloatToStr(PyFloat(h)) = s
ParseFloat(s) == CHOOSE h \in -(2 * MaxInt)..(2 * MaxInt) : FloatToStr(PyFloat(h)) = s

PyOk(v) == [ok |-> TRUE, val |-> v]
PyErr(e) == [ok |-> FALSE, err |-> e]

\* int(value)
py_int(v) ==
    CASE v.k = "int" -> PyOk(v)
      [] v.k = "bool" -> PyOk(PyInt(IF v.b THEN 1 ELSE 0))
      [] v.k = "float" -> IF v.inf THEN PyErr("OverflowError")
                          ELSE PyOk(PyInt(IF v.h < 0 THEN -((-v.h) \div 2) ELSE v.h \div 2))
      [] v.k = "str" -> IF IsIntStr(v.s) THEN PyOk(PyInt(ParseInt(v.s))) ELSE PyErr("ValueError")
      [] OTHER -> PyErr("TypeError")

\* float(value)
py_float(v) ==
    CASE v.k = "float" -> PyOk(v)
      [] v.k = "int" -> PyOk(PyFloat(2 * v.i))
      [] v.k = "bool" -> PyOk(PyFloat(IF v.b THEN 2 ELSE 0))
      [] v.k = "str" -> IF IsIntStr(v.s) THEN PyOk(PyFloat(2 * ParseInt(v.s)))
                        ELSE IF IsFloatStr(v.s) THEN PyOk(PyFloat(ParseFloat(v.s)))
                        ELSE IF v.s = "inf" THEN PyOk(FloatInf)
                        ELSE PyErr("ValueError")
      [] OTHER -> PyErr("TypeError")

\* bool(value): truthiness, never fails.
py_bool(v) ==
    CASE v.k = "bool" -> PyOk(v)
      [] v.k = "int" -> PyOk(PyBool(v.i # 0))
      [] v.k = "float" -> PyOk(PyBool(v.inf \/ v.h # 0))
      [] v.k = "str" -> PyOk(PyBool(v.s # ""))
      [] v.k = "NoneType" -> PyOk(PyBool(FALSE))
      [] v.k \in {"list", "tuple", "set", "frozenset"} -> PyOk(PyBool(v.items # <<>>))
      [] v.k = "dict" -> PyOk(PyBool(v.keys # <<>>))
      [] OTHER -> PyOk(PyBool(TRUE))

\* str(value): the printed form, never fails.
RECURSIVE Repr(_)
RECURSIVE ReprItems(_, _)
RECURSIVE ReprPairs(_, _, _)
ReprItems(xs, i) ==
    IF i > Len(xs) THEN ""
    ELSE Repr(xs[i]) \o (IF i < Len(xs) THEN ", " ELSE "") \o ReprItems(xs, i + 1)
ReprPairs(ks, vs, i) ==
    IF i > Len(ks) THEN ""
    ELSE "'" \o ks[i] \o "': " \o Repr(vs[i]) \o (IF i < Len(ks) THEN ", " ELSE "")
         \o ReprPairs(ks, vs, i + 1)
Repr(v) ==
    CASE v.k = "str" -> "'" \o v.s \o "'"
      [] v.k = "int" -> IntToStr(v.i)
      [] v.k = "float" -> FloatToStr(v)
      [] v.k = "bool" -> IF v.b THEN "True" ELSE "False"
      [] v.k = "NoneType" -> "None"
      [] v.k = "list" -> "[" \o ReprItems(v.items, 1) \o "]"
      [] v.k = "dict" -> "{" \o ReprPairs(v.keys, v.vals, 1) \o "}"
      [] v.k = "Namespace" -> "Namespace(" \o ReprPairs(v.keys, v.vals, 1) \o ")"
      [] OTHER -> "<" \o v.k \o ">"

py_str(v) == IF v.k = "str" THEN PyOk(v) ELSE PyOk(PyStr(Repr(v)))

(***************************************************************************)
(* Target-type descriptors.  A type is named by a string (its identity,    *)
(* which is what _indexcache is keyed by); TypeDef gives its shape.        *)
(*   kind    the shape the classification predicates recognise             *)
(*   name    __name__, or "" when the descriptor has no such attribute     *)
(*   args    __args__ (the alternatives of a union, the element types, the *)
(*           type hints of an Enum, the supertype of a NewType)            *)
(*   fields  the fields of a record class, in declaration order            *)
(*   fwd     __forward_arg__ of a ForwardRef                               *)
(*   lits    the values of a Literal, the member values of an Enum         *)
(*   flag    Tuple[X, ...] has the ellipsis; a predicate of the type       *)
(*           raises this error ("" for none)                               *)
(***************************************************************************)
Ty(kind, name, args) ==
    [kind |-> kind, name |-> name, args |-> args, fields |-> <<>>,
     fwd |-> "", lits |-> <<>>, flag |-> ""]

\* A field of a record class: alias is metadata[mangle_key] ("" for none).
Fld(name, type, hasdefault, default, init, alias) ==
    [name |-> name, type |-> type, hasdefault |-> hasdefault, default |-> default,
     init |-> init, alias |-> alias]

Rec(kind, name, fields) == [Ty(kind, name, <<>>) EXCEPT !.fields = fields]

TypeDef(t) ==
    CASE t \in {"int", "str", "bool", "float", "NoneType", "Path", "date", "complex"}
           -> Ty("class", t, <<>>)
      [] t = "Any" -> Ty("any", "", <<>>)
      [] t = "List[int]" -> Ty("list", "", <<"int">>)
      [] t = "List[str]" -> Ty("list", "", <<"str">>)
      [] t = "List[Person]" -> Ty("list", "", <<"Person">>)
      [] t = "List[complex]" -> Ty("list", "", <<"complex">>)
      [] t = "List[Mangle]" -> Ty("list", "", <<"Mangle">>)
      [] t = "Set[int]" -> Ty("set", "", <<"int">>)
      [] t = "FrozenSet[int]" -> Ty("frozenset", "", <<"int">>)
      [] t = "Tuple[int, ...]" -> [Ty("tuple", "", <<"int">>) EXCEPT !.flag = "..."]
      [] t = "Tuple[int, str]" -> Ty("tuple", "", <<"int", "str">>)
      [] t = "Dict[str, int]" -> Ty("dict", "", <<"str", "int">>)
      [] t = "Union[int, str]" -> Ty("union", "", <<"int", "str">>)
      [] t = "Union[str, int]" -> Ty("union", "", <<"str", "int">>)
      [] t = "Union[int, float]" -> Ty("union", "", <<"int", "float">>)
      [] t = "Optional[str]" -> Ty("union", "", <<"str", "NoneType">>)
      [] t = "Union[int, List[int]]" -> Ty("union", "", <<"int", "List[int]">>)
      [] t = "Union[List[int], List[str]]" -> Ty("union", "", <<"List[int]", "List[str]">>)
      [] t = "Union[Set[int], str]" -> Ty("union", "", <<"Set[int]", "str">>)
      [] t = "Union[str, Set[int]]" -> Ty("union", "", <<"str", "Set[int]">>)
      [] t = "Union[Person, Mangle]" -> Ty("union", "", <<"Person", "Mangle">>)
      [] t = "Union[Person, Students]" -> Ty("union", "", <<"Person", "Students">>)
      [] t = "Optional[Node]" -> Ty("union", "", <<"ForwardRef('Node')", "NoneType">>)
      \* Unions with an alternative given by name, as Union['Person', Students].
      [] t = "Union[ForwardRef('Person'), Students]"
             -> Ty("union", "", <<"ForwardRef('Person')", "Students">>)
      [] t = "Union[ForwardRef('Person'), Person]"
             -> Ty("union", "", <<"ForwardRef('Person')", "Person">>)
      [] t = "ForwardRef('Node')" -> [Ty("forwardref", "", <<>>) EXCEPT !.fwd = "Node"]
      [] t = "ForwardRef('Person')" -> [Ty("forwardref", "", <<>>) EXCEPT !.fwd = "Person"]
      [] t = "ForwardRef('date')" -> [Ty("forwardref", "", <<>>) EXCEPT !.fwd = "date"]
      [] t = "Literal[1, 'a']" -> [Ty("literal", "", <<>>) EXCEPT !.lits = <<PyInt(1), PyStr("a")>>]
      [] t = "Hair" -> [Ty("enum", "Hair", <<>>) EXCEPT !.lits = <<PyStr("brown"), PyStr("black")>>]
      [] t = "UserId" -> Ty("newtype", "UserId", <<"int">>)
      \* Loop = NewType('Loop', ForwardRef('Loop'))
      [] t = "Loop" -> Ty("newtype", "Loop", <<"ForwardRef('Loop')">>)
      [] t = "ForwardRef('Loop')" -> [Ty("forwardref", "", <<>>) EXCEPT !.fwd = "Loop"]
      \* Two dataclasses, the inner one referring to the outer one by name:
      \* Outer(inner: Inner), Inner(up: Optional['Outer'] = None).
      [] t = "Outer" -> Rec("dataclass", "Outer", <<
             Fld("inner", "Inner", FALSE, PyNone, TRUE, "")>>)
      [] t = "Inner" -> Rec("dataclass", "Inner", <<
             Fld("up", "Optional[Outer]", TRUE, PyNone, TRUE, "")>>)
      [] t = "Optional[Outer]" -> Ty("union", "", <<"ForwardRef('Outer')", "NoneType">>)
      [] t = "ForwardRef('Outer')" -> [Ty("forwardref", "", <<>>) EXCEPT !.fwd = "Outer"]
      \* Descriptors on which the predicate is_enum raises.
      [] t = "RaiserT" -> [Ty("class", "RaiserT", <<>>) EXCEPT !.flag = "TypeError"]
      [] t = "RaiserV" -> [Ty("class", "RaiserV", <<>>) EXCEPT !.flag = "ValueError"]
      \* An attrs class on which the predicate is_enum raises.
      [] t = "RaiserAttrs" -> [Rec("attrs", "RaiserAttrs", <<
             Fld("name", "str", TRUE, PyStr(""), TRUE, "")>>) EXCEPT !.flag = "TypeError"]
      \* src/tests/test_attrload.py: Person, Students, Mangle.
      [] t = "Person" -> Rec("attrs", "Person", <<
             Fld("name", "str", TRUE, PyStr("Turiddu"), TRUE, ""),
             Fld("address", "Optional[str]", TRUE, PyNone, TRUE, "")>>)
      [] t = "Students" -> Rec("attrs", "Students", <<
             Fld("course", "str", FALSE, PyNone, TRUE, ""),
             Fld("students", "List[Person]", FALSE, PyNone, TRUE, "")>>)
      [] t = "Mangle" -> Rec("attrs", "Mangle", <<
             Fld("value", "int", FALSE, PyNone, TRUE, "va.lue")>>)
      \* A record whose field holds a sequence of a type no handler accepts.
      [] t = "Box" -> Rec("attrs", "Box", <<
             Fld("items", "List[complex]", FALSE, PyNone, TRUE, "")>>)
      \* Another class that is also called Person.
      [] t = "other.Person" -> Rec("attrs", "Person", <<
             Fld("name", "str", FALSE, PyNone, TRUE, ""),
             Fld("age", "int", TRUE, PyInt(0), TRUE, "")>>)
      \* test_uuid's class A: a field that takes no part in construction.
      [] t = "A" -> Rec("attrs", "A", <<
             Fld("a", "int", FALSE, PyNone, TRUE, ""),
             Fld("uuid_value", "str", FALSE, PyNone, FALSE, "")>>)
      \* A dataclass with two aliased fields and a defaulted one.
      [] t = "Point" -> Rec("dataclass", "Point", <<
             Fld("x", "int", FALSE, PyNone, TRUE, "X"),
             Fld("y", "int", FALSE, PyNone, TRUE, "Y"),
             Fld("label", "str", TRUE, PyStr(""), TRUE, "")>>)
      \* The docstring's self-referential NamedTuple.
      [] t = "Node" -> Rec("namedtuple", "Node", <<
             Fld("value", "int", FALSE, PyNone, TRUE, ""),
             Fld("next", "Optional[Node]", TRUE, PyNone, TRUE, "")>>)
      [] t = "Movie" -> Rec("typeddict", "Movie", <<
             Fld("title", "str", FALSE, PyNone, TRUE, ""),
             Fld("year", "int", TRUE, PyNone, TRUE, "")>>)
      [] OTHER -> Ty("class", t, <<>>)

\* AnnotationType and Annotation(kind, payload); annotation=None is NoAnn.
NoAnn == [a |-> "None"]
AnnIndex(i) == [a |-> "INDEX", i |-> i]
AnnField(f) == [a |-> "FIELD", s |-> f]
AnnKey(key) == [a |-> "KEY", s |-> key]
AnnValue(v) == [a |-> "VALUE", v |-> v]
AnnUnion(t) == [a |-> "UNION", t |-> t]
AnnForwardRef(n) == [a |-> "FORWARDREF", s |-> n]

TraceItem(value, type_, annotation) ==
    [value |-> value, type_ |-> type_, annotation |-> annotation]

(***************************************************************************)
(* Failures.  cls is the exception class; the Typedload classes carry      *)
(* trace, value, type_ and exceptions.  what/names/count stand for the     *)
(* message text.  origin is a history field, not read by the code: the     *)
(* frames of the load calls that were active when it was raised.           *)
(***************************************************************************)
Unset == [k |-> "<unset>"]

Exc(cls, what, value, type_, path) ==
    [cls |-> cls, what |-> what, names |-> {}, count |-> 0, trace |-> <<>>,
     value |-> value, type_ |-> type_, exceptions |-> <<>>, origin |-> path]

NoExc == [cls |-> ""]

TypedloadKinds ==
    {"TypedloadException", "TypedloadValueError", "TypedloadTypeError",
     "TypedloadAttributeError"}

\* isinstance(e, ...): the Typedload classes also derive from the builtin ones,
\* and TypedloadAttributeError from TypedloadTypeError (test_wrongtype catches
\* the failure of load(3, Person) as a TypedloadTypeError).
IsTypedloadException(e) == e.cls \in TypedloadKinds
IsValueError(e) == e.cls \in {"ValueError", "TypedloadValueError"}
IsTypeError(e) == e.cls \in {"TypeError", "TypedloadTypeError", "TypedloadAttributeError"}
IsAttributeError(e) == e.cls \in {"AttributeError", "TypedloadAttributeError"}

(***************************************************************************)
(* The outcome of a call: a returned value or a raised failure, the        *)
(* Loader as the call left it, the events of the call (a history), and     *)
(* arg: the object that was passed as value, as the call left it.          *)
(***************************************************************************)
Return(l, val, log, arg) ==
    [ok |-> TRUE, val |-> val, exc |-> NoExc, l |-> l, log |-> log, arg |-> arg]
Raise(l, exc, log, arg) ==
    [ok |-> FALSE, val |-> Unset, exc |-> exc, l |-> l, log |-> log, arg |-> arg]

(***************************************************************************)
(* The Loader object.  frefs_none is "frefs is None".                      *)
(***************************************************************************)
EmptyMap == [n \in {} |-> ""]

DefaultBasictypes == {"int", "bool", "float", "str", "NoneType"}
DefaultStrconstructed == {"Path", "IPv4Address"}

DefaultKwargs ==
    [basictypes |-> DefaultBasictypes, basiccast |-> TRUE, failonextra |-> FALSE,
     raiseconditionerrors |-> TRUE, frefs_none |-> FALSE, dictequivalence |-> TRUE,
     uniondebugconflict |-> FALSE, strconstructed |-> DefaultStrconstructed]

\* Loader.__init__: the defaults, overridden by the keyword arguments.
Loader(kwargs) ==
    [basictypes |-> kwargs.basictypes,
     basiccast |-> kwargs.basiccast,
     failonextra |-> kwargs.failonextra,
     raiseconditionerrors |-> kwargs.raiseconditionerrors,
     frefs_none |-> kwargs.frefs_none,
     frefs |-> EmptyMap,
     dictequivalence |-> kwargs.dictequivalence,
     mangle_key |-> "name",
     uniondebugconflict |-> kwargs.uniondebugconflict,
     strconstructed |-> kwargs.strconstructed,
     _indexcache |-> EmptyMap]

(***************************************************************************)
(* The classification predicates of typedload.typechecks, which the model  *)
(* takes as an oracle on the kind of the descriptor.  A predicate answers  *)
(* "T" or "F", or names the error it raises.                               *)
(***************************************************************************)
Truth(b) == IF b THEN "T" ELSE "F"
KindIs(t, kind) == Truth(TypeDef(t).kind = kind)

is_nonetype(t) == Truth(t = "NoneType")
is_union(t) == KindIs(t, "union")
is_enum(t) == IF TypeDef(t).flag \in {"TypeError", "ValueError"}
              THEN TypeDef(t).flag
              ELSE KindIs(t, "enum")
is_tuple(t) == KindIs(t, "tuple")
is_list(t) == KindIs(t, "list")
is_dict(t) == KindIs(t, "dict")
is_set(t) == KindIs(t, "set")
is_frozenset(t) == KindIs(t, "frozenset")
is_namedtuple(t) == KindIs(t, "namedtuple")
is_dataclass(t) == KindIs(t, "dataclass")
is_forwardref(t) == KindIs(t, "forwardref")
is_literal(t) == KindIs(t, "literal")
is_typeddict(t) == KindIs(t, "typeddict")
is_attrs(t) == KindIs(t, "attrs")
is_any(t) == KindIs(t, "any")
is_newtype(t) == KindIs(t, "newtype")

\* hasattr(type_, '__name__')
HasName(t) == TypeDef(t).name # ""

\* self.handlers: the routine of each handler, by index (from 0).
Handlers ==
    <<"_noneload", "_unionload", "_basicload", "_enumload", "_tupleload",
      "_listload", "_dictload", "_setload", "_frozensetload", "_namedtupleload",
      "_dataclassload", "_forwardrefload", "_literalload", "_typeddictload",
      "_datetimeload", "_strconstructload", "_attrload", "_anyload", "_newtypeload">>

TemporalTypes == {"date", "time", "datetime"}

\* self.handlers[i][0](type_): the condition of handler i.
cond(l, i, type_) ==
    CASE i = 0 -> is_nonetype(type_)
      [] i = 1 -> is_union(type_)
      [] i = 2 -> Truth(type_ \in l.basictypes)
      [] i = 3 -> is_enum(type_)
      [] i = 4 -> is_tuple(type_)
      [] i = 5 -> is_list(type_)
      [] i = 6 -> is_dict(type_)
      [] i = 7 -> is_set(type_)
      [] i = 8 -> is_frozenset(type_)
      [] i = 9 -> is_namedtuple(type_)
      [] i = 10 -> is_dataclass(type_)
      [] i = 11 -> is_forwardref(type_)
      [] i = 12 -> is_literal(type_)
      [] i = 13 -> is_typeddict(type_)
      [] i = 14 -> Truth(type_ \in TemporalTypes)
      [] i = 15 -> Truth(type_ \in l.strconstructed)
      [] i = 16 -> is_attrs(type_)
      [] i = 17 -> is_any(type_)
      [] i = 18 -> is_newtype(type_)

\* The result of Loader.index: the index, or the error that left it.
Found(i) == [ok |-> TRUE, i |-> i, err |-> ""]
NotFound(err) == [ok |-> FALSE, i |-> -1, err |-> err]

\* The loop of Loader.index from handler i on.
RECURSIVE index_from(_, _, _)
index_from(l, type_, i) ==
    IF i >= Len(Handlers) THEN NotFound("ValueError")
    ELSE LET match == cond(l, i, type_)
         IN  IF match = "T" THEN Found(i)
             ELSE IF match = "F" THEN index_from(l, type_, i + 1)
             ELSE IF l.raiseconditionerrors THEN NotFound(match)
             ELSE index_from(l, type_, i + 1)

\* A scan that keeps the last handler whose condition accepts the type.
index_last_match(l, type_) ==
    IF \E i \in 0..(Len(Handlers) - 1) : cond(l, i, type_) = "T"
    THEN Found(CHOOSE i \in 0..(Len(Handlers) - 1) :
                   /\ cond(l, i, type_) = "T"
                   /\ \A j \in (i + 1)..(Len(Handlers) - 1) : cond(l, j, type_) # "T")
    ELSE index_from(l, type_, 0)

\* A scan that falls back to the catch-all routine when nothing matches.
index_fallback(l, type_) ==
    IF index_from(l, type_, 0).ok THEN index_from(l, type_, 0) ELSE Found(17)

\* Loader.index
index(l, type_) == index_from(l, type_, 0)

(***************************************************************************)
(* Python operations the routines rely on.                                 *)
(***************************************************************************)
\* The characters of the strings the model iterates over.
Chars(s) ==
    CASE s = "" -> <<>>
      [] s = "ab" -> <<"a", "b">>
      [] s = "12" -> <<"1", "2">>
      [] OTHER -> <<s>>

\* iter(value): the elements, or TypeError.
Iter(v) ==
    CASE v.k \in {"list", "tuple", "set", "frozenset"} -> PyOk(v.items)
      [] v.k = "str" -> PyOk([i \in DOMAIN Chars(v.s) |-> PyStr(Chars(v.s)[i])])
      [] v.k = "dict" -> PyOk([i \in DOMAIN v.keys |-> PyStr(v.keys[i])])
      [] OTHER -> PyErr("TypeError")

\* len(value), or TypeError.
PyLen(v) == IF Iter(v).ok THEN PyOk(Len(Iter(v).val)) ELSE PyErr("TypeError")

\* a == b on values: numbers compare by value across int, bool and float.
IsNumber(v) == v.k \in {"int", "bool"} \/ (v.k = "float" /\ ~v.inf)
NumHalves(v) == CASE v.k = "int" -> 2 * v.i
                  [] v.k = "bool" -> IF v.b THEN 2 ELSE 0
                  [] v.k = "float" -> v.h
PyEq(a, b) == IF IsNumber(a) /\ IsNumber(b) THEN NumHalves(a) = NumHalves(b) ELSE a = b

\* type_(value) of an Enum: the member with that value, or ValueError.
py_enum(type_, v) ==
    LET lits == TypeDef(type_).lits
    IN  IF \E i \in DOMAIN lits : PyEq(lits[i], v)
        THEN PyOk(EnumMember(type_, CHOOSE i \in DOMAIN lits : PyEq(lits[i], v)))
        ELSE PyErr("ValueError")

\* type_(value) for the classes built from one value.
py_call(type_, v) ==
    CASE type_ = "int" -> py_int(v)
      [] type_ = "float" -> py_float(v)
      [] type_ = "bool" -> py_bool(v)
      [] type_ = "str" -> py_str(v)
      [] type_ = "Path" -> IF v.k = "str" THEN PyOk(PathObj(v.s))
                           ELSE IF v.k = "Path" THEN PyOk(v)
                           ELSE PyErr("TypeError")
      [] type_ = "IPv4Address" ->
             IF v.k = "str" /\ v.s = "1.2.3.4" THEN PyOk([k |-> "IPv4Address", s |-> v.s])
             ELSE PyErr("ValueError")
      [] TypeDef(type_).kind = "enum" -> py_enum(type_, v)
      [] OTHER -> PyErr("TypeError")

\* datetime.date(*value)
py_date(v) ==
    IF ~Iter(v).ok THEN PyErr("TypeError")
    ELSE LET a == Iter(v).val
         IN  IF Len(a) # 3 \/ \E i \in DOMAIN a : a[i].k # "int" THEN PyErr("TypeError")
             ELSE IF a[1].i >= 1 /\ a[2].i \in 1..12 /\ a[3].i \in 1..28
                  THEN PyOk(DateObj(a))
                  ELSE PyErr("ValueError")

\* d[key] = v on an insertion-ordered mapping.
DictSet(d, key, v) ==
    IF KeyPos(d.keys, key) # 0
    THEN [d EXCEPT !.vals[KeyPos(d.keys, key)] = v]
    ELSE [d EXCEPT !.keys = Append(d.keys, key), !.vals = Append(d.vals, v)]

\* type_(**params) for a record class; params is a dict.
Construct(type_, params) ==
    LET d == TypeDef(type_)
        F == d.fields
        init == SelectSeq(F, LAMBDA f : f.init)
        initnames == {init[i].name : i \in DOMAIN init}
        given == Range(params.keys)
    IN  IF d.kind = "typeddict" THEN PyOk(params)
        ELSE IF ~(given \subseteq initnames) THEN PyErr("TypeError")
        ELSE IF \E i \in DOMAIN init : ~init[i].hasdefault /\ init[i].name \notin given
             THEN PyErr("TypeError")
        ELSE PyOk(Obj(type_,
                      [i \in DOMAIN init |-> init[i].name],
                      [i \in DOMAIN init |->
                          IF init[i].name \in given
                          THEN params.vals[KeyPos(params.keys, init[i].name)]
                          ELSE init[i].default]))

(***************************************************************************)
(* The routines.  Each takes the Loader, the value and the target type,    *)
(* as in the source, and path: the frames of the active load calls, its    *)
(* own last (a history parameter, used only for the origin of a failure).  *)
(***************************************************************************)
RECURSIVE load(_, _, _, _, _)

_noneload(l, value, type_, path) ==
    IF value = PyNone THEN Return(l, PyNone, <<>>, value)
    ELSE Raise(l, Exc("TypedloadValueError", "Not None", value, type_, path), <<>>, value)

_anyload(l, value, type_, path) == Return(l, value, <<>>, value)

_literalload(l, value, type_, path) ==
    IF \E i \in DOMAIN TypeDef(type_).lits : PyEq(TypeDef(type_).lits[i], value)
    THEN Return(l, value, <<>>, value)
    ELSE Raise(l, Exc("TypedloadValueError", "Not one of the allowed values", value, type_, path),
               <<>>, value)

\* A check by isinstance instead of by the exact type.
_basicload_isinstance(l, value, type_, path) ==
    IF TypeOf(value) = type_ \/ (TypeOf(value) = "bool" /\ type_ = "int")
    THEN Return(l, value, <<>>, value)
    ELSE IF l.basiccast
    THEN LET c == py_call(type_, value)
         IN  IF c.ok THEN Return(l, c.val, <<>>, value)
             ELSE IF c.err = "ValueError"
             THEN Raise(l, Exc("TypedloadValueError", "cast", value, type_, path), <<>>, value)
             ELSE IF c.err = "TypeError"
             THEN Raise(l, Exc("TypedloadTypeError", "cast", value, type_, path), <<>>, value)
             ELSE Raise(l, Exc("TypedloadException", "cast", value, type_, path), <<>>, value)
    ELSE Raise(l, Exc("TypedloadValueError", "Got value of another type", value, type_, path),
               <<>>, value)

_basicload(l, value, type_, path) ==
    IF TypeOf(value) # type_
    THEN IF l.basiccast
         THEN LET c == py_call(type_, value)
              IN  IF c.ok THEN Return(l, c.val, <<>>, value)
                  ELSE IF c.err = "ValueError"
                  THEN Raise(l, Exc("TypedloadValueError", "cast", value, type_, path), <<>>, value)
                  ELSE IF c.err = "TypeError"
                  THEN Raise(l, Exc("TypedloadTypeError", "cast", value, type_, path), <<>>, value)
                  ELSE Raise(l, Exc("TypedloadException", "cast", value, type_, path), <<>>, value)
         ELSE Raise(l, Exc("TypedloadValueError", "Got value of another type", value, type_, path),
                    <<>>, value)
    ELSE Return(l, value, <<>>, value)

\* l.load(v, t, annotation=Annotation(INDEX, i)) for i, v in enumerate(zip(items, types)),
\* up to the first failure.  acc holds the Loader, the events, the loaded
\* values and the elements as the calls left them.
RECURSIVE load_each(_, _, _, _)
load_each(items, types, path, acc) ==
    LET i == Len(acc.vals) + 1
    IN  IF i > Len(items) \/ i > Len(types)
        THEN Return(acc.l, acc.vals, acc.log, acc.args \o SubSeq(items, i, Len(items)))
        ELSE LET r == load(acc.l, items[i], types[i], AnnIndex(i - 1), path)
             IN  IF r.ok
                 THEN load_each(items, types, path,
                                [l |-> r.l, log |-> acc.log \o r.log,
                                 vals |-> Append(acc.vals, r.val),
                                 args |-> Append(acc.args, r.arg)])
                 ELSE Raise(r.l, r.exc, acc.log \o r.log,
                            acc.args \o <<r.arg>> \o SubSeq(items, i + 1, Len(items)))

EachStart(l) == [l |-> l, log |-> <<>>, vals |-> <<>>, args |-> <<>>]
Repeat(t, n) == [i \in 1..n |-> t]
\* The iterated object once its elements were passed to load.
Back(value, args) == IF value.k = "list" THEN PyList(args) ELSE value

\* The distinct elements, in order of first occurrence.
RECURSIVE Distinct(_)
Distinct(xs) ==
    IF xs = <<>> THEN <<>>
    ELSE LET front == Distinct(SubSeq(xs, 1, Len(xs) - 1))
             x == xs[Len(xs)]
         IN  IF \E i \in DOMAIN front : PyEq(front[i], x) THEN front ELSE Append(front, x)

_listload(l, value, type_, path) ==
    IF value.k = "dict"
    THEN Raise(l, Exc("TypedloadTypeError", "Unable to load dictionary", value, type_, path),
               <<>>, value)
    ELSE IF ~Iter(value).ok
    THEN Raise(l, Exc("TypedloadTypeError", "not iterable", value, type_, path), <<>>, value)
    ELSE LET items == Iter(value).val
             r == load_each(items, Repeat(TypeDef(type_).args[1], Len(items)), path, EachStart(l))
         IN  IF r.ok THEN Return(r.l, PyList(r.val), r.log, Back(value, r.arg))
             ELSE IF IsTypeError(r.exc) /\ ~IsTypedloadException(r.exc)
             THEN Raise(r.l, Exc("TypedloadTypeError", "str(e)", value, type_, path),
                        r.log, Back(value, r.arg))
             ELSE Raise(r.l, r.exc, r.log, Back(value, r.arg))

\* The body shared by _setload and _frozensetload; wrap builds the result.
SetLike(l, value, type_, path, kind) ==
    IF value.k = "dict"
    THEN Raise(l, Exc("TypedloadTypeError", "Unable to load dictionary", value, type_, path),
               <<>>, value)
    ELSE IF ~Iter(value).ok
    THEN Raise(l, Exc("TypeError", "not iterable", Unset, "", path), <<>>, value)
    ELSE LET items == Iter(value).val
             r == load_each(items, Repeat(TypeDef(type_).args[1], Len(items)), path, EachStart(l))
         IN  IF r.ok
             THEN Return(r.l, [k |-> kind, items |-> Distinct(r.val)], r.log, Back(value, r.arg))
             ELSE Raise(r.l, r.exc, r.log, Back(value, r.arg))

_setload(l, value, type_, path) == SetLike(l, value, type_, path, "set")

_frozensetload(l, value, type_, path) == SetLike(l, value, type_, path, "frozenset")

_tupleload(l, value, type_, path) ==
    LET args == TypeDef(type_).args
    IN  IF value.k = "dict"
        THEN Raise(l, Exc("TypedloadTypeError", "Unable to load dictionary", value, type_, path),
                   <<>>, value)
        ELSE IF TypeDef(type_).flag = "..."
        THEN IF ~Iter(value).ok
             THEN Raise(l, Exc("TypeError", "not iterable", Unset, "", path), <<>>, value)
             ELSE LET items == Iter(value).val
                      r == load_each(items, Repeat(args[1], Len(items)), path, EachStart(l))
                  IN  IF r.ok THEN Return(r.l, PyTuple(r.val), r.log, Back(value, r.arg))
                      ELSE Raise(r.l, r.exc, r.log, Back(value, r.arg))
        ELSE IF ~PyLen(value).ok
        THEN Raise(l, Exc("TypeError", "no len()", Unset, "", path), <<>>, value)
        ELSE IF l.failonextra /\ PyLen(value).val > Len(args)
        THEN Raise(l, Exc("TypedloadValueError", "Value is too long", value, type_, path),
                   <<>>, value)
        ELSE IF PyLen(value).val < Len(args)
        THEN Raise(l, Exc("TypedloadValueError", "Value is too short", value, type_, path),
                   <<>>, value)
        ELSE LET items == Iter(value).val
                 r == load_each(items, args, path, EachStart(l))
             IN  IF r.ok THEN Return(r.l, PyTuple(r.val), r.log, Back(value, r.arg))
                 ELSE Raise(r.l, r.exc, r.log, Back(value, r.arg))

_dictequivalence(l, value) ==
    IF l.dictequivalence /\ value.k = "Namespace"
    THEN PyDict(value.keys, value.vals)
    ELSE value

\* The result of _dictload: keys[i] (a loaded value) maps to vals[i].
PyMapping(ks, vs) == [k |-> "mapping", keys |-> ks, vals |-> vs]
MappingSet(m, key, v) ==
    IF \E i \in DOMAIN m.keys : PyEq(m.keys[i], key)
    THEN [m EXCEPT !.vals[CHOOSE i \in DOMAIN m.keys : PyEq(m.keys[i], key)] = v]
    ELSE PyMapping(Append(m.keys, key), Append(m.vals, v))

\* The comprehension of _dictload over value.items(), up to the first failure.
RECURSIVE load_items(_, _, _, _, _)
load_items(value, key_type, value_type, path, acc) ==
    LET i == Len(acc.args) + 1
    IN  IF i > Len(value.keys) THEN Return(acc.l, acc.m, acc.log, PyDict(value.keys, acc.args))
        ELSE LET rk == load(acc.l, PyStr(value.keys[i]), key_type, AnnKey(value.keys[i]), path)
                 rv == load(rk.l, value.vals[i], value_type, AnnValue(value.vals[i]), path)
                 rest == SubSeq(value.vals, i + 1, Len(value.vals))
             IN  IF ~rk.ok
                 THEN Raise(rk.l, rk.exc, acc.log \o rk.log,
                            PyDict(value.keys, acc.args \o <<value.vals[i]>> \o rest))
                 ELSE IF ~rv.ok
                 THEN Raise(rv.l, rv.exc, acc.log \o rk.log \o rv.log,
                            PyDict(value.keys, acc.args \o <<rv.arg>> \o rest))
                 ELSE load_items(value, key_type, value_type, path,
                                 [l |-> rv.l, log |-> acc.log \o rk.log \o rv.log,
                                  m |-> MappingSet(acc.m, rk.val, rv.val),
                                  args |-> Append(acc.args, rv.arg)])

_dictload(l, value, type_, path) ==
    LET key_type == TypeDef(type_).args[1]
        value_type == TypeDef(type_).args[2]
        v == _dictequivalence(l, value)
    IN  IF v.k # "dict"
        THEN Raise(l, Exc("TypedloadAttributeError", "no attribute items", v, type_, path),
                   <<>>, value)
        ELSE LET r == load_items(v, key_type, value_type, path,
                                 [l |-> l, log |-> <<>>, m |-> PyMapping(<<>>, <<>>), args |-> <<>>])
                 arg == IF value.k = "dict" THEN r.arg ELSE value
             IN  IF r.ok THEN Return(r.l, r.val, r.log, arg)
                 ELSE IF IsAttributeError(r.exc)
                 THEN Raise(r.l, Exc("TypedloadAttributeError", "str(e)", v, type_, path), r.log, arg)
                 ELSE Raise(r.l, r.exc, r.log, arg)

_datetimeload(l, value, type_, path) ==
    LET c == py_date(value)
    IN  IF c.ok THEN Return(l, c.val, <<>>, value)
        ELSE IF c.err = "TypeError"
        THEN Raise(l, Exc("TypedloadTypeError", "str(e)", value, type_, path), <<>>, value)
        ELSE Raise(l, Exc(c.err, "date", Unset, "", path), <<>>, value)

_strconstructload(l, value, type_, path) ==
    LET c == py_call(type_, value)
    IN  IF c.ok THEN Return(l, c.val, <<>>, value)
        ELSE IF c.err = "ValueError"
        THEN Raise(l, Exc("TypedloadValueError", "str(e)", value, type_, path), <<>>, value)
        ELSE IF c.err = "TypeError"
        THEN Raise(l, Exc("TypedloadTypeError", "str(e)", value, type_, path), <<>>, value)
        ELSE Raise(l, Exc("TypedloadException", "str(e)", value, "type", path), <<>>, value)

_newtypeload(l, value, type_, path) ==
    load(l, value, TypeDef(type_).args[1], NoAnn, path)

_forwardrefload(l, value, type_, path) ==
    IF l.frefs_none
    THEN Raise(l, Exc("TypedloadException", "ForwardRef resolving is disabled", value, type_, path),
               <<>>, value)
    ELSE LET tname == TypeDef(type_).fwd
         IN  IF tname \notin DOMAIN l.frefs
             THEN Raise(l, Exc("TypedloadValueError", "ForwardRef unknown", value, type_, path),
                        <<>>, value)
             ELSE load(l, value, l.frefs[tname], AnnForwardRef(tname), path)

(***************************************************************************)
(* Record-like types.                                                      *)
(***************************************************************************)
MangleOk(val, arg) == [ok |-> TRUE, val |-> val, err |-> "", key |-> "", arg |-> arg]
MangleErr(err, key, arg) == [ok |-> FALSE, val |-> Unset, err |-> err, key |-> key, arg |-> arg]

\* The loop of _mangle_names from the i-th item of value on; r is the copy.
RECURSIVE mangle_items(_, _, _, _, _)
mangle_items(namesmap, value, failonextra, i, r) ==
    LET skip == {namesmap[n] : n \in DOMAIN namesmap}
    IN  IF i > Len(value.keys) THEN MangleOk(r, value)
        ELSE LET key == value.keys[i]
             IN  IF key \in skip /\ key \notin DOMAIN namesmap
                 THEN IF failonextra THEN MangleErr("ValueError", key, value)
                      ELSE mangle_items(namesmap, value, failonextra, i + 1, r)
                 ELSE mangle_items(namesmap, value, failonextra, i + 1,
                                   DictSet(r, IF key \in DOMAIN namesmap THEN namesmap[key] ELSE key,
                                           value.vals[i]))

\* A renaming that rewrites the keys of the caller's mapping itself.
_mangle_names_inplace(namesmap, value, failonextra) ==
    IF DOMAIN namesmap = {} THEN MangleOk(value, value)
    ELSE IF value.k # "dict" THEN MangleErr("AttributeError", "", value)
    ELSE LET m == mangle_items(namesmap, value, failonextra, 1, PyDict(<<>>, <<>>))
         IN  IF m.ok THEN MangleOk(m.val, m.val) ELSE m

\* namesmap maps a data name to its python name.
_mangle_names(namesmap, value, failonextra) ==
    IF DOMAIN namesmap = {} THEN MangleOk(value, value)
    ELSE IF value.k # "dict" THEN MangleErr("AttributeError", "", value)
    ELSE mangle_items(namesmap, value, failonextra, 1, PyDict(<<>>, <<>>))

FieldNames(type_) == {TypeDef(type_).fields[i].name : i \in DOMAIN TypeDef(type_).fields}
FieldNamed(type_, name) ==
    TypeDef(type_).fields[CHOOSE i \in DOMAIN TypeDef(type_).fields :
                              TypeDef(type_).fields[i].name = name]
TypeHints(type_) == [n \in FieldNames(type_) |-> FieldNamed(type_, n).type]

\* The name changes a record class asks for, later fields overriding earlier.
RECURSIVE NamesMap(_, _)
NamesMap(F, n) ==
    IF n = 0 THEN EmptyMap
    ELSE IF F[n].alias # "" THEN (F[n].alias :> F[n].name) @@ NamesMap(F, n - 1)
    ELSE NamesMap(F, n - 1)

\* The loop of _objloader over value.items(), up to the first failure.
RECURSIVE load_fields(_, _, _, _, _, _)
load_fields(fields, type_hints, value, type_, path, acc) ==
    LET i == Len(acc.args) + 1
        rest == SubSeq(value.vals, i + 1, Len(value.vals))
    IN  IF i > Len(value.keys) THEN Return(acc.l, acc.params, acc.log, acc.args)
        ELSE IF value.keys[i] \notin fields
        THEN IF acc.l.failonextra
             THEN Raise(acc.l,
                        [Exc("TypedloadValueError", "Dictionary has unrecognized fields",
                             value, type_, path)
                           EXCEPT !.names = Range(value.keys) \ fields],
                        acc.log, acc.args \o <<value.vals[i]>> \o rest)
             ELSE load_fields(fields, type_hints, value, type_, path,
                              [acc EXCEPT !.args = Append(@, value.vals[i])])
        ELSE LET r == load(acc.l, value.vals[i], type_hints[value.keys[i]],
                           AnnField(value.keys[i]), path)
             IN  IF r.ok
                 THEN load_fields(fields, type_hints, value, type_, path,
                                  [l |-> r.l, log |-> acc.log \o r.log,
                                   params |-> DictSet(acc.params, value.keys[i], r.val),
                                   args |-> Append(acc.args, r.arg)])
                 ELSE Raise(r.l, r.exc, acc.log \o r.log, acc.args \o <<r.arg>> \o rest)

_objloader(l, fields, necessary_fields, type_hints, value, type_, path) ==
    LET newvalue == _dictequivalence(l, value)
    IN  IF value.k # "dict" /\ newvalue = value
        THEN Raise(l, Exc("TypedloadAttributeError", "no attribute keys", value, type_, path),
                   <<>>, value)
        ELSE LET v == IF value.k = "dict" THEN value ELSE newvalue
                 vfields == Range(v.keys)
             IN  IF necessary_fields \cap vfields # necessary_fields
                 THEN Raise(l,
                            [Exc("TypedloadValueError", "Value does not contain fields",
                                 v, type_, path)
                               EXCEPT !.names = necessary_fields \ vfields],
                            <<>>, value)
                 ELSE LET r == load_fields(fields, type_hints, v, type_, path,
                                           [l |-> l, log |-> <<>>,
                                            params |-> PyDict(<<>>, <<>>), args |-> <<>>])
                          arg == IF value.k = "dict" THEN PyDict(value.keys, r.arg) ELSE value
                          c == Construct(type_, r.val)
                          ev == <<[e |-> "construct", t |-> type_, ok |-> c.ok]>>
                      IN  IF ~r.ok THEN Raise(r.l, r.exc, r.log, arg)
                          ELSE IF c.ok THEN Return(r.l, c.val, r.log \o ev, arg)
                          ELSE IF c.err = "TypeError"
                          THEN Raise(r.l, Exc("TypedloadTypeError", "constructor", Unset, "", path),
                                     r.log \o ev, arg)
                          ELSE Raise(r.l, Exc("TypedloadValueError", "constructor", Unset, "", path),
                                     r.log \o ev, arg)

\* The part _dataclassload and _attrload share: mangle, then _objloader.
MangledLoad(l, value, type_, path, fields, necessary_fields) ==
    LET namesmap == NamesMap(TypeDef(type_).fields, Len(TypeDef(type_).fields))
        m == _mangle_names(namesmap, value, l.failonextra)
    IN  IF ~m.ok
        THEN IF m.err = "ValueError"
             THEN Raise(l, [Exc("TypedloadValueError", "Extra field", value, type_, path)
                              EXCEPT !.names = {m.key}], <<>>, m.arg)
             ELSE Raise(l, Exc("TypedloadAttributeError", "no attribute items", value, type_, path),
                        <<>>, m.arg)
        ELSE LET r == _objloader(l, fields, necessary_fields, TypeHints(type_), m.val, type_, path)
             IN  [r EXCEPT !.arg = IF DOMAIN namesmap = {} THEN r.arg ELSE m.arg]

_dataclassload(l, value, type_, path) ==
    LET F == TypeDef(type_).fields
    IN  MangledLoad(l, value, type_, path, FieldNames(type_),
                    {F[i].name : i \in {j \in DOMAIN F : F[j].init /\ ~F[j].hasdefault}})

_attrload(l, value, type_, path) ==
    LET F == TypeDef(type_).fields
    IN  MangledLoad(l, value, type_, path, FieldNames(type_),
                    {F[i].name : i \in {j \in DOMAIN F : ~F[j].hasdefault /\ F[j].init}})

_namedtupleload(l, value, type_, path) ==
    LET F == TypeDef(type_).fields
        fields == FieldNames(type_)
        optional_fields == {F[i].name : i \in {j \in DOMAIN F : F[j].hasdefault}}
    IN  _objloader(l, fields, fields \ optional_fields, TypeHints(type_), value, type_, path)

\* __required_keys__: the keys that are not declared optional.
_typeddictload(l, value, type_, path) ==
    LET F == TypeDef(type_).fields
        necessary_fields == {F[i].name : i \in {j \in DOMAIN F : ~F[j].hasdefault}}
    IN  _objloader(l, FieldNames(type_), necessary_fields, TypeHints(type_), value, type_, path)

(***************************************************************************)
(* Unions and enumerations.                                                *)
(***************************************************************************)
\* sorted_args.sort(key=lambda i: i in l.basictypes): a stable sort on a
\* boolean key puts the False keys first, each group in its own order.
SortedArgs(l, args) ==
    SelectSeq(args, LAMBDA t : t \notin l.basictypes)
        \o SelectSeq(args, LAMBDA t : t \in l.basictypes)

\* The loop of _unionload; acc.stop is "break", "raise" or "" (go on).
RECURSIVE union_try(_, _, _)
union_try(sorted_args, path, acc) ==
    LET i == Len(acc.tried) + 1
    IN  IF i > Len(sorted_args) \/ acc.stop # "" THEN acc
        ELSE LET t == sorted_args[i]
                 r == load(acc.l, acc.arg, t, AnnUnion(t), path)
                 a == [acc EXCEPT !.l = r.l, !.log = @ \o r.log, !.arg = r.arg,
                                  !.tried = Append(@, [t |-> t, ok |-> r.ok, val |-> r.val])]
             IN  IF r.ok
                 THEN union_try(sorted_args, path,
                                [a EXCEPT !.r = r.val, !.loaded_count = @ + 1,
                                          !.stop = IF ~acc.l.uniondebugconflict
                                                   THEN "break" ELSE ""])
                 ELSE IF IsTypedloadException(r.exc)
                 THEN union_try(sorted_args, path,
                                [a EXCEPT !.exceptions = Append(@, r.exc)])
                 ELSE [a EXCEPT !.stop = "raise", !.exc = r.exc]

UnionEvent(type_, value, fast, order, tried, res) ==
    [e |-> "union", t |-> type_, value |-> value, fast |-> fast, order |-> order,
     tried |-> tried, ok |-> res.ok, val |-> res.val, exc |-> res.exc]

union_shortcut_never(l, value, args) == FALSE

\* if value_type in l.basictypes and value_type in args
union_shortcut(l, value, args) ==
    TypeOf(value) \in l.basictypes /\ TypeOf(value) \in Range(args)

_unionload(l, value, type_, path) ==
    LET args == TypeDef(type_).args
    IN  IF union_shortcut(l, value, args)
        THEN LET res == Return(l, value, <<>>, value)
             IN  [res EXCEPT !.log = <<UnionEvent(type_, value, TRUE, <<>>, <<>>, res)>>]
        ELSE LET sorted_args == SortedArgs(l, args)
                 a == union_try(sorted_args, path,
                                [l |-> l, log |-> <<>>, arg |-> value, tried |-> <<>>,
                                 exceptions |-> <<>>, loaded_count |-> 0, r |-> PyNone,
                                 stop |-> "", exc |-> NoExc])
                 res == IF a.stop = "raise" THEN Raise(a.l, a.exc, a.log, a.arg)
                        ELSE IF a.loaded_count = 1 THEN Return(a.l, a.r, a.log, a.arg)
                        ELSE IF a.loaded_count = 0
                        THEN Raise(a.l, [Exc("TypedloadValueError", "could not be loaded",
                                             value, type_, path)
                                           EXCEPT !.exceptions = a.exceptions],
                                   a.log, a.arg)
                        ELSE Raise(a.l, [Exc("TypedloadTypeError", "could be loaded n times",
                                             value, type_, path)
                                           EXCEPT !.exceptions = a.exceptions,
                                                  !.count = a.loaded_count],
                                   a.log, a.arg)
             IN  [res EXCEPT !.log = @ \o <<UnionEvent(type_, value, FALSE, sorted_args,
                                                     a.tried, res)>>]

\* The loop of _enumload over the type hints of the Enum.
RECURSIVE enum_try(_, _, _, _, _)
enum_try(value, type_, hints, path, acc) ==
    LET i == Len(acc.exceptions) + 1
    IN  IF i > Len(hints)
        THEN Raise(acc.l, [Exc("TypedloadValueError", "could not be loaded", value, type_, path)
                             EXCEPT !.exceptions = acc.exceptions],
                   acc.log, value)
        ELSE LET r == load(acc.l, value, hints[i], AnnUnion(hints[i]), path)
                 c == py_enum(type_, r.val)
             IN  IF r.ok /\ c.ok THEN Return(r.l, c.val, acc.log \o r.log, r.arg)
                 ELSE enum_try(value, type_, hints, path,
                               [l |-> r.l, log |-> acc.log \o r.log,
                                exceptions |-> Append(acc.exceptions,
                                    IF r.ok THEN Exc("ValueError", "not a member", Unset, "", path)
                                    ELSE r.exc)])

_enumload(l, value, type_, path) ==
    IF py_enum(type_, value).ok THEN Return(l, py_enum(type_, value).val, <<>>, value)
    ELSE enum_try(value, type_, TypeDef(type_).args, path,
                  [l |-> l, log |-> <<>>, exceptions |-> <<>>])

(***************************************************************************)
(* Loader.load                                                             *)
(***************************************************************************)
\* func(self, value, type_) for func = self.handlers[index][1]
call(i, l, value, type_, path) ==
    CASE i = 0 -> _noneload(l, value, type_, path)
      [] i = 1 -> _unionload(l, value, type_, path)
      [] i = 2 -> _basicload(l, value, type_, path)
      [] i = 3 -> _enumload(l, value, type_, path)
      [] i = 4 -> _tupleload(l, value, type_, path)
      [] i = 5 -> _listload(l, value, type_, path)
      [] i = 6 -> _dictload(l, value, type_, path)
      [] i = 7 -> _setload(l, value, type_, path)
      [] i = 8 -> _frozensetload(l, value, type_, path)
      [] i = 9 -> _namedtupleload(l, value, type_, path)
      [] i = 10 -> _dataclassload(l, value, type_, path)
      [] i = 11 -> _forwardrefload(l, value, type_, path)
      [] i = 12 -> _literalload(l, value, type_, path)
      [] i = 13 -> _typeddictload(l, value, type_, path)
      [] i = 14 -> _datetimeload(l, value, type_, path)
      [] i = 15 -> _strconstructload(l, value, type_, path)
      [] i = 16 -> _attrload(l, value, type_, path)
      [] i = 17 -> _anyload(l, value, type_, path)
      [] i = 18 -> _newtypeload(l, value, type_, path)

\* self._indexcache[type_] = index
cache_put(l, type_, i) == [l EXCEPT !._indexcache = (type_ :> i) @@ @]

\* "Add type to known types, to resolve ForwardRef later on"
Registers(l, type_) ==
    ~l.frefs_none /\ HasName(type_) /\ TypeDef(type_).name \notin DOMAIN l.frefs
\* A registration that replaces the type already known under the name.
register_overwrite(l, type_) ==
    IF ~l.frefs_none /\ HasName(type_)
    THEN [l EXCEPT !.frefs = (TypeDef(type_).name :> type_) @@ @]
    ELSE l

register(l, type_) ==
    IF Registers(l, type_)
    THEN [l EXCEPT !.frefs = (TypeDef(type_).name :> type_) @@ @]
    ELSE l

\* e.trace.insert(0, TraceItem(value, type_, annotation))
trace_insert(e, item) == [e EXCEPT !.trace = <<item>> \o @]

\* Lines 268-273 of load: what the call makes of the routine's outcome r.
\* A failure of the typedload family gets this call's entry at the front of
\* its trace; any other failure trips the assert.
load_except(r, item, here, ev) ==
    IF r.ok THEN [r EXCEPT !.log = ev \o @]
    ELSE IF ~IsTypedloadException(r.exc)
    THEN Raise(r.l, Exc("AssertionError", "", Unset, "", here),
               ev \o r.log \o <<[e |-> "assert", t |-> item.type_, cls |-> r.exc.cls]>>,
               r.arg)
    ELSE Raise(r.l, trace_insert(r.exc, item),
               ev \o r.log \o <<[e |-> "reraise", item |-> item,
                                 before |-> r.exc.trace,
                                 after |-> trace_insert(r.exc, item).trace,
                                 origin |-> r.exc.origin]>>,
               r.arg)

\* The routine runs before the name of the type is registered.
load_call_late(l, l1, value, type_, item, here, cached, i) ==
    LET r == load_except(call(i, [l1 EXCEPT !.frefs = l.frefs], value, type_, here),
                         item, here,
                         <<[e |-> "invoke", t |-> type_, i |-> i, cached |-> cached,
                            value |-> value, depth |-> Len(here), path |-> here]>>)
    IN  [r EXCEPT !.l = IF cached THEN @ ELSE register(@, type_)]

\* Lines 260-273 of load, with the handler index i in hand: register a
\* named type on its first resolution, then run the routine.
load_call(l, l1, value, type_, item, here, cached, i) ==
    load_except(call(i, l1, value, type_, here), item, here,
                (IF ~cached /\ Registers(l, type_)
                 THEN <<[e |-> "register", name |-> TypeDef(type_).name, t |-> type_]>>
                 ELSE <<>>)
                \o <<[e |-> "invoke", t |-> type_, i |-> i, cached |-> cached,
                      value |-> value, depth |-> Len(here), path |-> here]>>)

\* Lines 246-266 of load, with the outcome ix of the handler lookup.
load_index(l, value, type_, item, here, cached, ix) ==
    IF ~ix.ok
    THEN IF ix.err = "ValueError"
         THEN Raise(l, Exc("TypedloadTypeError", "Cannot deal with value", value, type_, here),
                    <<[e |-> "nohandler", t |-> type_]>>, value)
         ELSE Raise(l, Exc(ix.err, "condition", Unset, "", here),
                    <<[e |-> "nohandler", t |-> type_]>>, value)
    ELSE load_call(l, IF cached THEN l ELSE register(cache_put(l, type_, ix.i), type_),
                   value, type_, item, here, cached, ix.i)

\* Loader.load.  A call nested deeper than the interpreter allows raises
\* RecursionError in place of running.
load(l, value, type_, annotation, path) ==
    IF Len(path) >= RecursionLimit
    THEN Raise(l, Exc("RecursionError", "maximum recursion depth exceeded", Unset, "", path),
               <<>>, value)
    ELSE
    load_index(l, value, type_, TraceItem(value, type_, annotation),
               Append(path, TraceItem(value, type_, annotation)),
               type_ \in DOMAIN l._indexcache,
               IF type_ \in DOMAIN l._indexcache
               THEN Found(l._indexcache[type_]) ELSE index(l, type_))

(***************************************************************************)
(* The state: one Loader instance and its last top-level call.             *)
(***************************************************************************)
VARIABLES
    loader,     \* the Loader object: configuration, _indexcache, frefs
    ncalls,     \* top-level calls of load made so far
    last        \* the last top-level call: what was passed, what came back

vars == <<loader, ncalls, last>>

NoCall == [made |-> FALSE]

\* The call has come back with outcome r: the Loader is as the call left it.
Returned(value, type_, r) ==
    /\ loader' = r.l
    /\ last' = [made |-> TRUE, value |-> value, type_ |-> type_, before |-> loader,
                ok |-> r.ok, val |-> r.val, exc |-> r.exc, log |-> r.log, arg |-> r.arg]

\* One top-level call loader.load(value, type_).
Load(value, type_) ==
    /\ ncalls < MaxCalls
    /\ Returned(value, type_, load(loader, value, type_, NoAnn, <<>>))
    /\ ncalls' = ncalls + 1

Start(kwargs) ==
    /\ loader = Loader(kwargs)
    /\ ncalls = 0
    /\ last = NoCall

(***************************************************************************)
(* Specification Spec: dispatch.  One type per handler, types that no      *)
(* handler accepts, and Loaders whose basictypes and strconstructed make   *)
(* several conditions accept the same type.                                *)
(***************************************************************************)
ExtendedKwargs ==
    [DefaultKwargs EXCEPT !.basictypes = DefaultBasictypes \cup {"Path", "date", "Hair"},
                          !.strconstructed = DefaultStrconstructed \cup {"date"}]

DispatchKwargs ==
    {[kw EXCEPT !.frefs_none = f] : kw \in {DefaultKwargs, ExtendedKwargs}, f \in BOOLEAN}

DispatchTypes ==
    {"NoneType", "Optional[str]", "int", "Hair", "Tuple[int, ...]", "List[int]",
     "Dict[str, int]", "Set[int]", "FrozenSet[int]", "Node", "Point",
     "ForwardRef('Person')", "Literal[1, 'a']", "Movie", "date", "Path", "Person",
     "Any", "UserId", "complex", "List[complex]"}

DispatchValues == {PyNone, PyList(<<PyInt(1), PyInt(2)>>)}

Init == \E kw \in DispatchKwargs : Start(kw)
Next == \E v \in DispatchValues, t \in DispatchTypes : Load(v, t)
Spec == Init /\ [][Next]_vars

(***************************************************************************)
(* Helpers of the properties.                                              *)
(***************************************************************************)
HandlerIndexes == 0..(Len(Handlers) - 1)
Events(kind) == {i \in DOMAIN last.log : last.log[i].e = kind}

\* The conditions that accept type_ on Loader l.
Matching(l, type_) == {i \in HandlerIndexes : cond(l, i, type_) = "T"}

\* No condition accepts type_, and none raises an error that load lets through.
NoMatch(l, type_) ==
    \A i \in HandlerIndexes :
        /\ cond(l, i, type_) # "T"
        /\ cond(l, i, type_) # "F" => ~l.raiseconditionerrors

\* C1: every routine that load invokes, on a first lookup or on a cached one,
\* is the routine of the lowest-index handler whose condition accepts the
\* type, and the index that the cache holds for a type is that same index.
C1_FirstMatchWins ==
    /\ \A t \in DOMAIN loader._indexcache :
           /\ loader._indexcache[t] \in Matching(loader, t)
           /\ \A j \in Matching(loader, t) : loader._indexcache[t] <= j
    /\ last.made =>
           \A n \in Events("invoke") :
               /\ last.log[n].i \in Matching(loader, last.log[n].t)
               /\ \A j \in Matching(loader, last.log[n].t) : last.log[n].i <= j

\* C1: a cached lookup of a type that several conditions accept.
C1_Witness ==
    /\ last.made
    /\ \E n \in Events("invoke") :
           /\ last.log[n].cached
           /\ Cardinality(Matching(loader, last.log[n].t)) >= 2

\* C2: a type that no condition accepts never enters the handler cache or
\* the forward-reference table and never has a routine invoked for it; a
\* top-level load of it raises TypedloadTypeError and leaves the Loader as
\* it was.
C2_NoHandler ==
    /\ \A t \in DispatchTypes :
           NoMatch(loader, t) =>
               /\ t \notin DOMAIN loader._indexcache
               /\ \A n \in DOMAIN loader.frefs : loader.frefs[n] # t
    /\ last.made =>
           /\ \A n \in Events("invoke") : ~NoMatch(loader, last.log[n].t)
           /\ NoMatch(loader, last.type_) =>
                  /\ ~last.ok
                  /\ last.exc.cls = "TypedloadTypeError"
                  /\ Events("invoke") = {}
                  /\ loader = last.before

\* C2: a top-level load of a type that no condition accepts has failed.
C2_Witness ==
    /\ last.made
    /\ NoMatch(loader, last.type_)
    /\ ~last.ok

(***************************************************************************)
(* Specification SpecTrace: failures and their traces.  The inputs of      *)
(* test_wrongtype, and one failure of every kind.                          *)
(***************************************************************************)
\* test_wrongtype: {'course': 'how to be a corsair', 'students': [{'name': 'Alfio'}, 3]}
StudentsData ==
    PyDict(<<"course", "students">>,
           <<PyStr("how to be a corsair"),
             PyList(<<PyDict(<<"name">>, <<PyStr("Alfio")>>), PyInt(3)>>)>>)

BoxData == PyDict(<<"items">>, <<PyList(<<PyInt(3)>>)>>)

TraceKwargs == {[DefaultKwargs EXCEPT !.uniondebugconflict = d] : d \in BOOLEAN}

TraceTypes ==
    {"complex", "List[complex]", "Box", "Students", "Person", "int",
     "ForwardRef('Node')", "Node", "Union[List[int], List[str]]"}

TraceValues ==
    {PyNone, PyInt(3), PyStr("x"), PyList(<<PyInt(3)>>), StudentsData, BoxData}

InitTrace == \E kw \in TraceKwargs : Start(kw)
NextTrace == \E v \in TraceValues, t \in TraceTypes : Load(v, t)
SpecTrace == InitTrace /\ [][NextTrace]_vars

\* The last two entries of a sequence.
LastTwo(s) == SubSeq(s, Len(s) - 1, Len(s))

\* C3: a failure of the typedload family that leaves a top-level load carries
\* one trace entry per load call that was active when it arose, from the root
\* call to the call in which it arose, root first.
C3_FullTrace ==
    (last.made /\ ~last.ok /\ IsTypedloadException(last.exc)) =>
        last.exc.trace = last.exc.origin

\* C4: a load call that lets a failure through puts its own entry at the
\* front of the trace and leaves the rest as it was; so when the failure arose
\* in the load of element i of the sequence in field f of a record, the last
\* two entries of the trace are the field entry of f and the index entry of i.
C4_PrependOnly ==
    last.made =>
        /\ \A n \in Events("reraise") :
               last.log[n].after = <<last.log[n].item>> \o last.log[n].before
        /\ (/\ ~last.ok
            /\ IsTypedloadException(last.exc)
            /\ Len(last.exc.origin) >= 3
            /\ last.exc.origin[Len(last.exc.origin)].annotation.a = "INDEX"
            /\ last.exc.origin[Len(last.exc.origin) - 1].annotation.a = "FIELD")
           => /\ Len(last.exc.trace) >= 2
              /\ LastTwo(last.exc.trace) = LastTwo(last.exc.origin)

(***************************************************************************)
(* Specification SpecUnion: unions of two alternatives, with and without   *)
(* uniondebugconflict and basiccast.                                       *)
(***************************************************************************)
UnionKwargs ==
    {[DefaultKwargs EXCEPT !.uniondebugconflict = d, !.basiccast = b] : d, b \in BOOLEAN}

UnionTypes ==
    {"Union[int, str]", "Union[str, int]", "Optional[str]", "Union[int, List[int]]",
     "Union[List[int], List[str]]", "Union[Set[int], str]", "Union[str, Set[int]]",
     "Union[Person, Mangle]"}

UnionValues ==
    {PyNone, PyInt(3), PyStr("3"), PyStr("x"), PyList(<<PyInt(3)>>),
     PyList(<<PyStr("x")>>), PyDict(<<"va.lue">>, <<PyInt(1)>>)}

InitUnion == \E kw \in UnionKwargs : Start(kw)
NextUnion == \E v \in UnionValues, t \in UnionTypes : Load(v, t)
SpecUnion == InitUnion /\ [][NextUnion]_vars

\* Whether the value of the last call decodes against alternative t on its
\* own, on the Loader as it was before the call, and to what.
Alone(t) == load(last.before, last.value, t, AnnUnion(t), <<>>)

\* C5: for a union [A, B], a value that decodes against A only is returned as
\* A decodes it; a value that decodes against both, with uniondebugconflict
\* on, makes load raise the conflict (a type error of the typedload family).
C5_UnionDeterminism ==
    (last.made /\ TypeDef(last.type_).kind = "union") =>
        LET A == TypeDef(last.type_).args[1]
            B == TypeDef(last.type_).args[2]
        IN  /\ (Alone(A).ok /\ ~Alone(B).ok) =>
                   (last.ok /\ last.val = Alone(A).val)
            /\ (Alone(A).ok /\ Alone(B).ok /\ last.before.uniondebugconflict) =>
                   (/\ ~last.ok
                    /\ last.exc.cls = "TypedloadTypeError"
                    /\ last.exc.what = "could be loaded n times")

\* The attempts of a union event that succeeded.
Successes(ev) == {i \in DOMAIN ev.tried : ev.tried[i].ok}

\* C6: when _unionload attempts the alternatives, one success returns the
\* value of that attempt; no success raises TypedloadValueError holding one
\* failure per alternative of the union; with uniondebugconflict every
\* alternative is attempted, and two or more successes raise TypedloadTypeError
\* with the number of successes and the failures of the other alternatives.
C6_UnionOutcome ==
    last.made =>
        \A n \in Events("union") :
            LET ev == last.log[n]
                debug == last.before.uniondebugconflict
            IN  ~ev.fast =>
                    /\ Cardinality(Successes(ev)) = 1 =>
                           /\ ev.ok
                           /\ \E i \in Successes(ev) : ev.val = ev.tried[i].val
                    /\ Cardinality(Successes(ev)) = 0 =>
                           /\ ~ev.ok
                           /\ ev.exc.cls = "TypedloadValueError"
                           /\ Len(ev.exc.exceptions) = Len(TypeDef(ev.t).args)
                    /\ debug => Len(ev.tried) = Len(TypeDef(ev.t).args)
                    /\ (debug /\ Cardinality(Successes(ev)) >= 2) =>
                           /\ ~ev.ok
                           /\ ev.exc.cls = "TypedloadTypeError"
                           /\ ev.exc.count = Cardinality(Successes(ev))
                           /\ Len(ev.exc.exceptions) =
                                  Len(ev.tried) - Cardinality(Successes(ev))

(***************************************************************************)
(* Specification SpecRecord: record-like types of every kind, with and     *)
(* without aliased fields, required fields and failonextra.                *)
(***************************************************************************)
RecordKwargs == {[DefaultKwargs EXCEPT !.failonextra = f] : f \in BOOLEAN}

RecordTypes == {"Person", "Mangle", "Point", "A", "Node", "Movie"}

RecordValues ==
    {PyDict(<<>>, <<>>),
     \* test_load_metanames: {'va.lue': 12}
     PyDict(<<"va.lue">>, <<PyInt(12)>>),
     PyDict(<<"value">>, <<PyInt(2)>>),
     PyDict(<<"va.lue">>, <<PyStr("x")>>),
     PyDict(<<"va.lue", "value", "zzz">>, <<PyInt(1), PyInt(2), PyInt(3)>>),
     PyDict(<<"X", "Y">>, <<PyInt(1), PyInt(2)>>),
     PyDict(<<"x">>, <<PyInt(1)>>),
     PyDict(<<"name">>, <<PyStr("Alfio")>>),
     PyDict(<<"name", "b", "c">>, <<PyStr("Alfio"), PyInt(1), PyInt(2)>>),
     PyDict(<<"a", "uuid_value">>, <<PyInt(1), PyStr("u")>>),
     PyDict(<<"title">>, <<PyStr("t")>>),
     PyInt(3)}

InitRecord == \E kw \in RecordKwargs : Start(kw)
NextRecord == \E v \in RecordValues, t \in RecordTypes : Load(v, t)
SpecRecord == InitRecord /\ [][NextRecord]_vars

IsRecord(t) == TypeDef(t).kind \in {"attrs", "dataclass", "namedtuple", "typeddict"}

\* The external name -> field name table of a record class (only attrs
\* classes and dataclasses have one).
Aliasing(t) ==
    IF TypeDef(t).kind \in {"attrs", "dataclass"}
    THEN NamesMap(TypeDef(t).fields, Len(TypeDef(t).fields))
    ELSE EmptyMap

Internal(t, key) == IF key \in DOMAIN Aliasing(t) THEN Aliasing(t)[key] ELSE key

\* The field names that are reachable only through their external name.
Shadowed(t) == {Aliasing(t)[a] : a \in DOMAIN Aliasing(t)} \ DOMAIN Aliasing(t)

\* The keys of an input that name a field of t.
Recognised(t) == (FieldNames(t) \ Shadowed(t)) \cup DOMAIN Aliasing(t)
Unrecognised(t, value) == Range(value.keys) \ Recognised(t)

\* The field names that the keys of value stand for.
KeysAfterAliasing(t, value) == {Internal(t, key) : key \in Range(value.keys) \ Shadowed(t)}

\* The fields without a default that the constructor takes.
Required(t) ==
    {TypeDef(t).fields[i].name :
        i \in {j \in DOMAIN TypeDef(t).fields :
                  ~TypeDef(t).fields[j].hasdefault /\ TypeDef(t).fields[j].init}}

Missing(t, value) == Required(t) \ KeysAfterAliasing(t, value)

\* The record of t that has every field at its default.
Defaults(t) ==
    Obj(t, [i \in DOMAIN TypeDef(t).fields |-> TypeDef(t).fields[i].name],
           [i \in DOMAIN TypeDef(t).fields |-> TypeDef(t).fields[i].default])

\* C7: loading a mapping that lacks a required field of a record type, once
\* its keys are aliased, raises TypedloadValueError naming exactly the missing
\* required fields and constructs nothing; loading the empty mapping into a
\* record type without required fields returns the record of the defaults.
C7_RequiredFields ==
    (last.made /\ IsRecord(last.type_) /\ last.value.k = "dict") =>
        /\ Missing(last.type_, last.value) # {} =>
               /\ ~last.ok
               /\ last.exc.cls = "TypedloadValueError"
               /\ last.exc.names = Missing(last.type_, last.value)
               /\ Events("construct") = {}
        /\ (Required(last.type_) = {} /\ last.value = PyDict(<<>>, <<>>)) =>
               /\ last.ok
               /\ last.val = Defaults(last.type_)

\* The input with only the keys that name a field of t.
Restricted(t, value) ==
    LET ks == SelectSeq(value.keys, LAMBDA key : key \in Recognised(t))
    IN  PyDict(ks, [i \in DOMAIN ks |-> value.vals[KeyPos(value.keys, ks[i])]])

\* Every value under a key that names a field decodes against the field.
RecognisedDecode(l, t, value) ==
    \A i \in DOMAIN value.keys :
        value.keys[i] \in Recognised(t) =>
            load(l, value.vals[i], TypeHints(t)[Internal(t, value.keys[i])],
                 AnnField(Internal(t, value.keys[i])), <<>>).ok

\* C8: for a mapping that has every required field and whose recognised
\* fields all decode: with failonextra off the result is that of loading the
\* mapping without its unrecognised keys; with failonextra on, an unrecognised
\* key makes load raise TypedloadValueError listing all unrecognised keys.
C8_ExtraFields ==
    (/\ last.made
     /\ IsRecord(last.type_)
     /\ last.value.k = "dict"
     /\ Missing(last.type_, last.value) = {}
     /\ RecognisedDecode(last.before, last.type_, last.value)) =>
        /\ ~last.before.failonextra =>
               LET R == load(last.before, Restricted(last.type_, last.value),
                             last.type_, NoAnn, <<>>)
               IN  last.ok = R.ok /\ last.val = R.val
        /\ (last.before.failonextra /\ Unrecognised(last.type_, last.value) # {}) =>
               /\ ~last.ok
               /\ last.exc.cls = "TypedloadValueError"
               /\ last.exc.names = Unrecognised(last.type_, last.value)

\* The mapping with every key replaced by the field name it stands for.
InternalKeys(t, value) ==
    PyDict([i \in DOMAIN value.keys |-> Internal(t, value.keys[i])], value.vals)

\* C9: for a record type with aliased fields, load leaves the mapping it was
\* passed with the keys and values it had, whether it succeeds or fails; and
\* loading a mapping keyed by the external names gives what the record loader
\* gives for the same values keyed by the field names.
C9_NameMangling ==
    (/\ last.made
     /\ IsRecord(last.type_)
     /\ DOMAIN Aliasing(last.type_) # {}
     /\ last.value.k = "dict") =>
        /\ last.arg = last.value
        /\ Range(last.value.keys) \subseteq Recognised(last.type_) =>
               LET r == _objloader(last.before, FieldNames(last.type_),
                                   Required(last.type_), TypeHints(last.type_),
                                   InternalKeys(last.type_, last.value), last.type_,
                                   <<TraceItem(last.value, last.type_, NoAnn)>>)
               IN  /\ last.ok = r.ok
                   /\ last.val = r.val
                   /\ last.exc.cls = r.exc.cls

\* C9: a mapping keyed by an external name has been loaded into a record.
C9_Witness ==
    /\ last.made
    /\ IsRecord(last.type_)
    /\ last.value.k = "dict"
    /\ Range(last.value.keys) \subseteq Recognised(last.type_)
    /\ \E key \in Range(last.value.keys) : Internal(last.type_, key) # key
    /\ last.ok
    /\ last.val.k = "obj"

(***************************************************************************)
(* Specification SpecBasic: the basic types, with and without basiccast,   *)
(* on the default basictypes and on basictypes extended with Path.         *)
(***************************************************************************)
BasicKwargs ==
    {[DefaultKwargs EXCEPT !.basiccast = b, !.basictypes = DefaultBasictypes \cup extra] :
        b \in BOOLEAN, extra \in {{}, {"Path"}}}

BasicTypes == {"int", "str", "bool", "float", "Path", "NoneType"}

BasicValues ==
    {PyNone, PyInt(0), PyInt(3), PyBool(TRUE), PyStr("3"), PyStr("x"), PyStr("1.5"),
     PyFloat(3), PyFloat(6), FloatInf, PyList(<<>>)}

InitBasic == \E kw \in BasicKwargs : Start(kw)
NextBasic == \E v \in BasicValues, t \in BasicTypes : Load(v, t)
SpecBasic == InitBasic /\ [][NextBasic]_vars

\* The types that the handler of the basic types takes on Loader l.
BasicTarget(l, t) == t \in l.basictypes /\ t # "NoneType"

CacheKwargs ==
    {[DefaultKwargs EXCEPT !.uniondebugconflict = d, !.frefs_none = f] : d, f \in BOOLEAN}

CacheTypes ==
    {"int", "complex", "Person", "other.Person", "Students", "Node", "ForwardRef('Person')",
     "Union[ForwardRef('Person'), Students]", "Union[ForwardRef('Person'), Person]"}

CacheValues ==
    {PyInt(3), PyDict(<<"name">>, <<PyStr("Alfio")>>),
     PyDict(<<"course", "students">>,
            <<PyStr("c"), PyList(<<PyDict(<<"name">>, <<PyStr("Alfio")>>)>>)>>),
     PyDict(<<"value", "next">>,
            <<PyInt(1), PyDict(<<"value">>, <<PyInt(2)>>)>>)}

InitCache == \E kw \in CacheKwargs : Start(kw)
NextCache == \E v \in CacheValues, t \in CacheTypes : Load(v, t)
SpecCache == InitCache /\ [][NextCache]_vars

\* C11: a load call that repeats the call before it, same value and same
\* type on the same Loader, has the same outcome (an equal result, or a
\* failure of the same kind) and leaves the forward-reference table as the
\* earlier call left it.
C11_RepeatedLoad ==
    [][(/\ last.made
        /\ last'.value = last.value
        /\ last'.type_ = last.type_)
       => (/\ last'.ok = last.ok
           /\ last'.val = last.val
           /\ last'.exc.cls = last.exc.cls
           /\ loader'.frefs = loader.frefs)]_vars

\* C12: no load call, successful or failing, removes an entry of the handler
\* cache or of the forward-reference table, changes the index cached for a
\* type, or replaces the type registered under a name.
C12_TablesOnlyGrow ==
    [][/\ \A t \in DOMAIN loader._indexcache :
              /\ t \in DOMAIN loader'._indexcache
              /\ loader'._indexcache[t] = loader._indexcache[t]
       /\ \A n \in DOMAIN loader.frefs :
              /\ n \in DOMAIN loader'.frefs
              /\ loader'.frefs[n] = loader.frefs[n]]_vars

\* C12: a type has been loaded whose name was already registered for
\* another type.
C12_Witness ==
    /\ ncalls = MaxCalls
    /\ \E t \in DOMAIN loader._indexcache :
           /\ TypeDef(t).name \in DOMAIN loader.frefs
           /\ loader.frefs[TypeDef(t).name] # t
           /\ loader.frefs[TypeDef(t).name] \in DOMAIN last.before._indexcache

(***************************************************************************)
(* Specification SpecFref: forward references, with the table enabled and  *)
(* disabled, to names that are and are not registered.                     *)
(***************************************************************************)
FrefKwargs == {[DefaultKwargs EXCEPT !.frefs_none = f] : f \in BOOLEAN}

FrefTypes ==
    {"int", "Person", "date", "Node", "ForwardRef('Person')", "ForwardRef('date')",
     "ForwardRef('Node')"}

FrefValues ==
    {PyInt(3), PyDict(<<"name">>, <<PyStr("Alfio")>>),
     PyList(<<PyInt(2020), PyInt(1), PyInt(1)>>),
     PyList(<<PyInt(2020), PyInt(13), PyInt(1)>>),
     PyDict(<<"value", "next">>, <<PyInt(1), PyDict(<<"value">>, <<PyInt(2)>>)>>)}

InitFref == \E kw \in FrefKwargs : Start(kw)
NextFref == \E v \in FrefValues, t \in FrefTypes : Load(v, t)
SpecFref == InitFref /\ [][NextFref]_vars

\* The last call loaded the same value against type t directly.
Directly(t) == load(last.before, last.value, t, NoAnn, <<>>)

\* C13: a load against a forward reference raises the base
\* TypedloadException when the table is disabled; raises TypedloadValueError
\* when the table has no entry for the name; and otherwise gives what loading
\* the value against the registered type gives, a failure carrying the entry
\* of that load, annotated with the name of the reference.
C13_ForwardRef ==
    (last.made /\ TypeDef(last.type_).kind = "forwardref") =>
        LET tname == TypeDef(last.type_).fwd
            frefs == last.before.frefs
        IN  /\ last.before.frefs_none =>
                   /\ ~last.ok
                   /\ last.exc.cls = "TypedloadException"
                   /\ Cardinality(Events("invoke")) = 1
            /\ (~last.before.frefs_none /\ tname \notin DOMAIN frefs) =>
                   /\ ~last.ok
                   /\ last.exc.cls = "TypedloadValueError"
                   /\ last.exc.what = "ForwardRef unknown"
            /\ (~last.before.frefs_none /\ tname \in DOMAIN frefs) =>
                   /\ last.ok = Directly(frefs[tname]).ok
                   /\ last.val = Directly(frefs[tname]).val
                   /\ ~last.ok =>
                          /\ Len(last.exc.trace) >= 2
                          /\ last.exc.trace[2] =
                                 TraceItem(last.value, frefs[tname], AnnForwardRef(tname))

(***************************************************************************)
(* Specification SpecCond: types on which a condition raises, with         *)
(* raiseconditionerrors on and off.                                        *)
(***************************************************************************)
CondKwargs ==
    {[DefaultKwargs EXCEPT !.raiseconditionerrors = r, !.basictypes = DefaultBasictypes \cup extra] :
        r \in BOOLEAN, extra \in {{}, {"RaiserT"}}}

CondTypes == {"RaiserT", "RaiserV", "RaiserAttrs", "int", "Person", "List[int]", "complex"}

CondValues ==
    {PyNone, PyInt(3), PyDict(<<"name">>, <<PyStr("Alfio")>>), PyList(<<PyInt(3)>>)}

InitCond == \E kw \in CondKwargs : Start(kw)
NextCond == \E v \in CondValues, t \in CondTypes : Load(v, t)
SpecCond == InitCond /\ [][NextCond]_vars

\* The conditions that raise on type_, and the error they raise.
Raising(l, type_) == {i \in HandlerIndexes : cond(l, i, type_) \notin {"T", "F"}}

\* The first condition that raises comes before every condition that accepts.
RaisesFirst(l, type_) ==
    \E i \in Raising(l, type_) : \A j \in Matching(l, type_) : i < j

\* C14: when a condition raises while load resolves the type of a call: with
\* raiseconditionerrors on, the call fails with that very error, whatever its
\* kind, and nothing more is resolved or invoked; with raiseconditionerrors
\* off, the condition counts as not accepting, and the type goes to the
\* first handler that accepts it.
C14_ConditionErrors ==
    (last.made /\ RaisesFirst(last.before, last.type_)) =>
        /\ last.before.raiseconditionerrors =>
               /\ ~last.ok
               /\ \E i \in Raising(last.before, last.type_) :
                      last.exc.cls = cond(last.before, i, last.type_)
               /\ Events("invoke") = {}
               /\ loader = last.before
        /\ (~last.before.raiseconditionerrors /\ Matching(last.before, last.type_) # {}) =>
               \E n \in Events("invoke") :
                   /\ last.log[n].depth = 1
                   /\ last.log[n].i \in Matching(last.before, last.type_)
                   /\ \A j \in Matching(last.before, last.type_) : last.log[n].i <= j
        /\ (~last.before.raiseconditionerrors /\ Matching(last.before, last.type_) = {}) =>
               (~last.ok /\ last.exc.cls = "TypedloadTypeError")

(***************************************************************************)
(* Specification SpecKinds: every routine on inputs of the wrong shape:    *)
(* values that cannot be iterated or measured, constructors that reject.   *)
(***************************************************************************)
KindsKwargs == {[DefaultKwargs EXCEPT !.failonextra = f] : f \in BOOLEAN}

KindsTypes ==
    {"List[int]", "Set[int]", "FrozenSet[int]", "Tuple[int, ...]", "Tuple[int, str]",
     "Dict[str, int]", "date", "Path", "A", "Person", "Hair", "Literal[1, 'a']"}

KindsValues ==
    {PyNone, PyInt(3), PyStr("x"), PyList(<<PyInt(3)>>),
     PyList(<<PyInt(2020), PyInt(1), PyInt(1)>>),
     PyList(<<PyInt(2020), PyInt(13), PyInt(1)>>),
     PyDict(<<"a", "uuid_value">>, <<PyInt(1), PyStr("u")>>)}

InitKinds == \E kw \in KindsKwargs : Start(kw)
NextKinds == \E v \in KindsValues, t \in KindsTypes : Load(v, t)
SpecKinds == InitKinds /\ [][NextKinds]_vars

\* C15: every failure that leaves a routine is of the typedload family, so
\* the assert in load never fails and every failing load of a type that has
\* a routine raises a failure of that family.
C15_RecognisedKinds ==
    last.made =>
        /\ Events("assert") = {}
        /\ (~last.ok /\ Events("invoke") # {}) => IsTypedloadException(last.exc)

(***************************************************************************)
(* Specification SpecEquiv: record-like types of every kind loaded from    *)
(* argparse.Namespace objects and from other values that are not mappings, *)
(* with dictequivalence on and off.                                        *)
(***************************************************************************)
EquivKwargs == {[DefaultKwargs EXCEPT !.dictequivalence = d] : d \in BOOLEAN}

EquivTypes == {"Person", "Mangle", "Point", "Node", "Movie"}

EquivValues ==
    {Namespace(<<"name">>, <<PyStr("Alfio")>>),
     Namespace(<<"va.lue">>, <<PyInt(12)>>),
     Namespace(<<"X", "Y">>, <<PyInt(1), PyInt(2)>>),
     Namespace(<<"value">>, <<PyInt(1)>>),
     Namespace(<<"title">>, <<PyStr("t")>>),
     PyDict(<<"X", "Y">>, <<PyInt(1), PyInt(2)>>),
     PyInt(3), PyList(<<>>)}

InitEquiv == \E kw \in EquivKwargs : Start(kw)
NextEquiv == \E v \in EquivValues, t \in EquivTypes : Load(v, t)
SpecEquiv == InitEquiv /\ [][NextEquiv]_vars

\* The plain mapping that a dict-equivalent object projects to.
Projected(value) == PyDict(value.keys, value.vals)

\* C16: for a record-like type of any kind, with or without aliased fields,
\* and a value that is not a mapping: a dict-equivalent object, with
\* dictequivalence on, is loaded exactly as the mapping it projects to; any
\* other value, or dictequivalence off, raises TypedloadAttributeError.
C16_DictEquivalence ==
    (last.made /\ IsRecord(last.type_) /\ last.value.k # "dict") =>
        /\ (last.value.k = "Namespace" /\ last.before.dictequivalence) =>
               LET d == load(last.before, Projected(last.value), last.type_, NoAnn, <<>>)
               IN  /\ last.ok = d.ok
                   /\ last.val = d.val
                   /\ last.exc.cls = d.exc.cls
        /\ ~(last.value.k = "Namespace" /\ last.before.dictequivalence) =>
               (~last.ok /\ last.exc.cls = "TypedloadAttributeError")

\* The alternatives of a union in the order of the attempts: the ones that
\* are not basic types in their declared order, then the basic ones in theirs.
AttemptOrder(l, t) ==
    SelectSeq(TypeDef(t).args, LAMBDA a : a \notin l.basictypes)
        \o SelectSeq(TypeDef(t).args, LAMBDA a : a \in l.basictypes)

\* The shortcut of _unionload applies to the last call.
FastPath ==
    /\ TypeOf(last.value) \in last.before.basictypes
    /\ TypeOf(last.value) \in Range(TypeDef(last.type_).args)

\* The event of the union routine of the last call itself.
TopUnion == last.log[CHOOSE n \in Events("union") : \A k \in Events("union") : k <= n]

\* C17: without uniondebugconflict and outside the shortcut, the union
\* routine attempts the alternatives in AttemptOrder, one after the other;
\* load returns what the first alternative of that order that decodes the
\* value gives, and no alternative after that one is attempted.
C17_UnionOrder ==
    (/\ last.made
     /\ TypeDef(last.type_).kind = "union"
     /\ ~last.before.uniondebugconflict
     /\ ~FastPath) =>
        LET order == AttemptOrder(last.before, last.type_)
            winners == {i \in DOMAIN order : Alone(order[i]).ok}
        IN  /\ [i \in DOMAIN TopUnion.tried |-> TopUnion.tried[i].t]
                   = SubSeq(order, 1, Len(TopUnion.tried))
            /\ winners # {} =>
                   LET w == CHOOSE i \in winners : \A j \in winners : i <= j
                   IN  /\ last.ok
                       /\ last.val = Alone(order[w]).val
                       /\ Len(TopUnion.tried) = w

\* An alternative other than the value's own type that decodes the value of
\* the last call when it is tried alone.
Rivals ==
    {t \in Range(TypeDef(last.type_).args) : t # TypeOf(last.value) /\ Alone(t).ok}

DepthKwargs ==
    {[DefaultKwargs EXCEPT !.frefs_none = f, !.uniondebugconflict = d] : f, d \in BOOLEAN}

DepthTypes ==
    {"int", "List[int]", "Node", "ForwardRef('Node')", "Outer", "Inner", "Students",
     "Union[ForwardRef('Person'), Students]", "Loop"}

\* Node(1, Node(2, Node(3))) and Outer(Inner(Outer(Inner()))) as mappings.
NodeData ==
    PyDict(<<"value", "next">>,
           <<PyInt(1), PyDict(<<"value", "next">>,
                              <<PyInt(2), PyDict(<<"value">>, <<PyInt(3)>>)>>)>>)

OuterData ==
    PyDict(<<"inner">>,
           <<PyDict(<<"up">>,
                    <<PyDict(<<"inner">>, <<PyDict(<<"up">>, <<PyNone>>)>>)>>)>>)

DepthValues ==
    {PyInt(1), PyStr("ab"), PyList(<<PyInt(1), PyInt(2)>>), NodeData, OuterData,
     StudentsData, PyDict(<<"up">>, <<PyDict(<<"inner">>, <<PyDict(<<>>, <<>>)>>)>>)}

InitDepth == \E kw \in DepthKwargs : Start(kw)
NextDepth == \E v \in DepthValues, t \in DepthTypes : Load(v, t)
SpecDepth == InitDepth /\ [][NextDepth]_vars

\* The failures of the last call that a forward-reference routine raised
\* itself: with the table enabled, the unknown-forward-reference failure.
Unknowns ==
    {n \in Events("reraise") :
        /\ TypeDef(last.log[n].item.type_).kind = "forwardref"
        /\ last.log[n].before = <<>>}

\* The record types that were being decoded when the failure of event n was
\* raised.
EnclosingRecords(n) ==
    {last.log[n].origin[k].type_ : k \in 1..(Len(last.log[n].origin) - 1)}
        \cap {t \in DepthTypes \cup {"Person", "Inner"} : IsRecord(t)}

\* C19: in a call that starts with an empty, enabled forward-reference
\* table, the name of every named type is registered before the routine of
\* the type is invoked, and no forward reference to the name of a record
\* type that is being decoded raises the unknown-forward-reference failure.
C19_RegisteredBeforeRoutine ==
    (last.made /\ ~last.before.frefs_none /\ DOMAIN last.before.frefs = {}) =>
        /\ \A n \in Events("invoke") :
               HasName(last.log[n].t) =>
                   \E k \in Events("register") :
                       k < n /\ last.log[k].name = TypeDef(last.log[n].t).name
        /\ \A n \in Unknowns :
               \A t \in EnclosingRecords(n) :
                   TypeDef(t).name # TypeDef(last.log[n].item.type_).fwd

\* From an empty table, a reference to the enclosing record Outer, found in
\* a field of Inner, resolved and the whole value was decoded.
C19_Witness ==
    /\ last.made /\ ~last.before.frefs_none /\ DOMAIN last.before.frefs = {}
    /\ last.type_ = "Outer" /\ last.ok
    /\ \E n \in Events("invoke") :
           /\ last.log[n].t = "ForwardRef('Outer')"
           /\ last.log[n].depth >= 4

Largest(S) == IF S = {} THEN 0 ELSE CHOOSE x \in S : \A y \in S : y <= x

\* The nesting depth of a value: 1 for a scalar, one more than its deepest
\* element for a container; a string of several characters holds its
\* characters.
RECURSIVE ValueDepth(_)
ValueDepth(v) ==
    CASE v.k \in {"list", "tuple", "set", "frozenset"}
           -> 1 + Largest({ValueDepth(v.items[i]) : i \in DOMAIN v.items})
      [] v.k \in {"dict", "Namespace", "obj"}
           -> 1 + Largest({ValueDepth(v.vals[i]) : i \in DOMAIN v.vals})
      [] v.k = "str" -> IF Len(Chars(v.s)) > 1 THEN 2 ELSE 1
      [] OTHER -> 1

\* The types a type is made of: its arguments, the types of its fields and
\* of its members, and the type its name stands for.
Parts(t) ==
    Range(TypeDef(t).args)
        \cup {TypeDef(t).fields[i].type : i \in DOMAIN TypeDef(t).fields}
        \cup {TypeOf(TypeDef(t).lits[i]) : i \in DOMAIN TypeDef(t).lits}
        \cup (IF TypeDef(t).fwd = "" THEN {} ELSE {TypeDef(t).fwd})

\* The schema of a type: every type reachable from it.
RECURSIVE Schema(_, _)
Schema(todo, seen) ==
    IF todo = {} THEN seen
    ELSE LET t == CHOOSE x \in todo : TRUE
         IN  Schema((todo \cup Parts(t)) \ (seen \cup {t}), seen \cup {t})

\* C20: every call of load comes back with a result or a failure, and the
\* load calls nested in it are never more than the nesting depth of the value
\* times the number of types of the schema; the interpreter's limit on
\* nested calls is never what ends a call.
C20_BoundedNesting ==
    last.made =>
        /\ last.ok \/ last.exc.cls # ""
        /\ \A n \in Events("invoke") :
               last.log[n].depth
                   <= ValueDepth(last.value) * Cardinality(Schema({last.type_}, {}))
        /\ \A n \in Events("assert") : last.log[n].cls # "RecursionError"
====
